---- MODULE Spec2Model ----
(***************************************************************************)
(* Model of src/parser.py: parse_product_page(html_content, config).       *)
(*                                                                         *)
(* Python values are tagged records so that None, '', [] and numbers stay  *)
(* distinct.  Text that the code trims or lower-cases is a sequence of     *)
(* one-character strings; a selector is opaque to the code (it is only     *)
(* tested for truthiness and handed to lxml) and is kept as one string.    *)
(***************************************************************************)
EXTENDS Integers, Sequences, FiniteSets, TLC

VARIABLES html_content, config, pc, tree, results, idx, evaluated, exc

\* src/utils/logger.py: the module's flag, the root logger, the environment,
\* and the record of the last call with the root logger as it found it
VARIABLES imported, logger_configured, root_handlers, root_level, env_level,
          next_id, calls, last_call, prev_handlers, prev_level

parservars == <<html_content, config, pc, tree, results, idx, evaluated, exc>>

logvars == <<imported, logger_configured, root_handlers, root_level, env_level,
             next_id, calls, last_call, prev_handlers, prev_level>>

vars == <<parservars, logvars>>

\* Largest number of elements in an enumerated document.
MaxNodes == 2

-----------------------------------------------------------------------------
\* Python values

PyNone == [t |-> "none"]
PyStr(s) == [t |-> "str", s |-> s]
PyInt(n) == [t |-> "int", n |-> n]
PyBool(b) == [t |-> "bool", b |-> b]
PyList(l) == [t |-> "list", items |-> l]

\* bool(v) for the value kinds that occur as 'selector' and 'multi'
Truthy(v) ==
    CASE v.t = "none" -> FALSE
      [] v.t = "bool" -> v.b
      [] v.t = "str" -> v.s # ""
      [] v.t = "int" -> v.n # 0
      [] v.t = "list" -> v.items # <<>>

\* dict.get(key, default)
Get(d, key, default) == IF key \in DOMAIN d THEN d[key] ELSE default

EmptyDict == [k \in {} |-> PyNone]

\* d[key] = v that leaves a None value out
PutDropNone(d, key, v) ==
    IF v = PyNone THEN d
    ELSE [k \in DOMAIN d \cup {key} |-> IF k = key THEN v ELSE d[k]]

\* d[key] = v
Put(d, key, v) == [k \in DOMAIN d \cup {key} |-> IF k = key THEN v ELSE d[k]]

-----------------------------------------------------------------------------
\* str.strip() and str.lower() on character sequences

Whitespace == {" ", "\t", "\n"}

RECURSIVE lstrip(_)
lstrip(s) ==
    IF s = <<>> THEN s
    ELSE IF Head(s) \in Whitespace THEN lstrip(Tail(s)) ELSE s

RECURSIVE rstrip(_)
rstrip(s) ==
    IF s = <<>> THEN s
    ELSE IF s[Len(s)] \in Whitespace THEN rstrip(SubSeq(s, 1, Len(s) - 1)) ELSE s

\* str.lstrip() in the place of str.strip()
stripLeftOnly(s) == lstrip(s)

strip(s) == rstrip(lstrip(s))

LowerChar(c) ==
    CASE c = "C" -> "c"
      [] c = "S" -> "s"
      [] c = "X" -> "x"
      [] c = "P" -> "p"
      [] c = "A" -> "a"
      [] c = "T" -> "t"
      [] c = "H" -> "h"
      [] OTHER -> c

lower(s) == [i \in DOMAIN s |-> LowerChar(s[i])]

-----------------------------------------------------------------------------
\* Documents.  The markup holds <p class="t"> elements with some text and
\* <img> elements with a src attribute, in document order.

P(text) == [tag |-> "p", text |-> text, src |-> <<>>]
Img(src) == [tag |-> "img", text |-> <<>>, src |-> src]

Texts == { <<"A">>, <<>>, <<" ", "B", " ">> }
Srcs == { <<" ", " ", "/", "a", ".", "p", "n", "g", " ">>, <<" ">> }

NodeChoices == {P(t) : t \in Texts} \cup {Img(s) : s \in Srcs}

NodeSeqs == UNION {[1..n -> NodeChoices] : n \in 0..MaxNodes}

SampleNodes == <<P(<<" ", "B", " ">>), Img(<<" ", " ", "/", "a", ".", "p", "n", "g", " ">>)>>

\* kind "empty": '' or whitespace only; "html": well-formed markup;
\* "truncated": markup cut off inside its last element.
EmptyInput == [kind |-> "empty", nodes |-> <<>>]
Html(nodes) == [kind |-> "html", nodes |-> nodes]
Truncated(nodes) == [kind |-> "truncated", nodes |-> nodes]

SampleInputs == {EmptyInput, Truncated(SampleNodes)}

ExampleInput == Html(<<P(<<"A">>), P(<<>>), P(<<" ", "B", " ">>)>>)

AllInputs == SampleInputs \cup {ExampleInput} \cup {Html(ns) : ns \in NodeSeqs}

\* lxml.html.fromstring: raises ParserError ("Document is empty") when the text
\* holds no markup at all; recovers the elements of broken markup otherwise.
FromstringRaises(content) == content.kind = "empty"

fromstring(content) == content.nodes

-----------------------------------------------------------------------------
\* The query engine (lxml), for the selectors of the model.

SelClass == ".t"
SelCssAttr == "img::attr(src)"
SelPath == "//p"
SelAttrPath == "//img/@src"
SelCount == "count(//p)"
SelString == "string(//p)"

Selectors == {SelClass, SelCssAttr, SelPath, SelAttrPath, SelCount, SelString}

NodeMatch(n) == [t |-> "node", text |-> n.text]
StrMatch(s) == [t |-> "str", s |-> s]

Raised == [kind |-> "raise"]
Matches(ms) == [kind |-> "list", items |-> ms]
ScalarFloat == [kind |-> "float"]
ScalarStr(s) == [kind |-> "str", s |-> s]

\* The elements of the tree with the given tag, in document order
WithTag(t, tag) == LET HasTag(n) == n.tag = tag IN SelectSeq(t, HasTag)

ElementsOf(t, tag) ==
    LET f == WithTag(t, tag) IN [i \in DOMAIN f |-> NodeMatch(f[i])]

\* tree.cssselect(selector).  cssselect translates the selector to XPath and
\* rejects every pseudo-element (ExpressionError); XPath text is no CSS
\* (SelectorSyntaxError).
cssselect(t, selector) ==
    CASE selector = SelClass -> Matches(ElementsOf(t, "p"))
      [] OTHER -> Raised

\* tree.xpath(selector).  A path yields a list of elements or of attribute
\* strings; an XPath function yields a scalar; CSS text is no XPath
\* (XPathEvalError).
xpath(t, selector) ==
    CASE selector = SelPath -> Matches(ElementsOf(t, "p"))
      [] selector = SelAttrPath ->
            LET f == WithTag(t, "img") IN Matches([i \in DOMAIN f |-> StrMatch(f[i].src)])
      [] selector = SelCount -> ScalarFloat
      [] selector = SelString ->
            LET f == WithTag(t, "p") IN ScalarStr(IF f = <<>> THEN <<>> ELSE f[1].text)
      [] OTHER -> Raised

-----------------------------------------------------------------------------
\* Configurations: config['data_points'] is an ordered dict of field rules;
\* each of a rule's keys may be missing.

TypeCss == <<"c", "s", "s">>
TypeXpath == <<"x", "p", "a", "t", "h">>

SelectorValues == {PyStr(sel) : sel \in Selectors} \cup {PyStr("")}
TypeValues ==
    {PyStr(TypeCss), PyStr(TypeXpath), PyStr(<<"X", "P", "a", "t", "h">>),
     PyStr(<<"j", "s", "o", "n">>), PyInt(5)}
MultiValues == {PyBool(TRUE), PyBool(FALSE)}

Field(key, values) == {EmptyDict} \cup {key :> v : v \in values}

Rules ==
    {a @@ b @@ c : a \in Field("selector", SelectorValues),
                   b \in Field("type", TypeValues),
                   c \in Field("multi", MultiValues)}

FieldNames == <<"name", "image">>

DataPoints ==
    UNION {{[i \in 1..n |-> [key |-> FieldNames[i], rule |-> rs[i]]] : rs \in [1..n -> Rules]}
           : n \in 0..Len(FieldNames)}

Configs == {EmptyDict} \cup {"data_points" :> dp : dp \in DataPoints}

\* config.get('data_points', {}).items()
items(cfg) == Get(cfg, "data_points", <<>>)

selector_of(rule) == Get(rule, "selector", PyNone)
type_of(rule) == Get(rule, "type", PyStr(TypeCss))
multi_of(rule) == Truthy(Get(rule, "multi", PyBool(FALSE)))

\* [] if multi else None
EmptyForm(multi) == IF multi THEN PyList(<<>>) ELSE PyNone

\* The query the try block makes for a rule whose selector_type is css or xpath
Evaluate(t, rule) ==
    IF lower(type_of(rule).s) = TypeCss
    THEN cssselect(t, selector_of(rule).s)
    ELSE xpath(t, selector_of(rule).s)

\* The dispatch without its final else: every type but css goes to xpath
BranchNoElse(t, rule) ==
    IF type_of(rule).t # "str" THEN "type_error"
    ELSE IF ~Truthy(selector_of(rule)) THEN "empty_selector"
    ELSE LET r == Evaluate(t, rule) IN
         CASE r.kind = "raise" -> "eval_error"
           [] r.kind = "float" -> "iter_error"
           [] OTHER -> "extracted"

\* The way one iteration of the loop over the data points leaves the loop body
Branch(t, rule) ==
    IF type_of(rule).t # "str" THEN "type_error"
    ELSE IF ~Truthy(selector_of(rule)) THEN "empty_selector"
    ELSE IF lower(type_of(rule).s) \notin {TypeCss, TypeXpath} THEN "unsupported"
    ELSE LET r == Evaluate(t, rule) IN
         CASE r.kind = "raise" -> "eval_error"
           [] r.kind = "float" -> "iter_error"
           [] OTHER -> "extracted"

\* for el in extracted_elements: a list yields its matches, a str its characters
Iterate(r) ==
    IF r.kind = "list" THEN r.items
    ELSE [i \in DOMAIN r.s |-> StrMatch(<<r.s[i]>>)]

\* The loop body with the non-empty test applied to string matches too
AppendFilteringAll(processed, el) ==
    LET text == strip(IF el.t = "str" THEN el.s ELSE el.text) IN
    IF text # <<>> THEN Append(processed, text) ELSE processed

\* One pass of the loop body over el, appending to processed_data
AppendMatch(processed, el) ==
    IF el.t = "str" THEN Append(processed, strip(el.s))
    ELSE IF el.t = "node"
         THEN LET text == strip(el.text) IN
              IF text # <<>> THEN Append(processed, text) ELSE processed
         ELSE processed

RECURSIVE ProcessFrom(_, _, _)
ProcessFrom(els, i, processed) ==
    IF i > Len(els) THEN processed
    ELSE ProcessFrom(els, i + 1, AppendMatch(processed, els[i]))

processed_data(els) == ProcessFrom(els, 1, <<>>)

\* The cardinality resolution taking processed_data[-1]
ResolveLast(multi, processed) ==
    IF multi THEN PyList([i \in DOMAIN processed |-> PyStr(processed[i])])
    ELSE IF processed # <<>> THEN PyStr(processed[Len(processed)]) ELSE PyNone

\* results[data_key] = processed_data if multi
\*                     else (processed_data[0] if processed_data else None)
Resolve(multi, processed) ==
    IF multi THEN PyList([i \in DOMAIN processed |-> PyStr(processed[i])])
    ELSE IF processed # <<>> THEN PyStr(processed[1]) ELSE PyNone

\* The value a rule's iteration stores, when it stores one
FieldValue(t, rule) ==
    IF Branch(t, rule) = "extracted"
    THEN Resolve(multi_of(rule), processed_data(Iterate(Evaluate(t, rule))))
    ELSE EmptyForm(multi_of(rule))

\* results[data_key] = value
Store(res, key, v) == Put(res, key, v)

\* An assignment that starts results afresh
StoreAlone(res, key, v) == Put(EmptyDict, key, v)

\* results[data_key] = [] if multi else None, in the except clause
StoreOnException(res, key, v) == Put(res, key, v)

\* The loop over the data points from position i on, as one computation
RECURSIVE RunFields(_, _, _, _)
RunFields(t, dp, i, res) ==
    IF i > Len(dp) THEN [returned |-> TRUE, results |-> res]
    ELSE LET b == Branch(t, dp[i].rule) IN
         IF b \in {"type_error", "iter_error"}
         THEN [returned |-> FALSE, results |-> res]
         ELSE IF b = "eval_error"
         THEN RunFields(t, dp, i + 1,
                        StoreOnException(res, dp[i].key, EmptyForm(multi_of(dp[i].rule))))
         ELSE RunFields(t, dp, i + 1, Store(res, dp[i].key, FieldValue(t, dp[i].rule)))

\* The whole call: returned is FALSE when an exception leaves the function
parse_product_page(content, dp) ==
    IF FromstringRaises(content) THEN [returned |-> FALSE, results |-> EmptyDict]
    ELSE RunFields(fromstring(content), dp, 1, EmptyDict)

-----------------------------------------------------------------------------
\* src/utils/logger.py

\* Largest number of configure_logging / get_logger calls after the import.
MaxCalls == 3

\* logging.INFO
DEFAULT_LOG_LEVEL == 20

UpperChar(c) ==
    CASE c = "d" -> "D"
      [] c = "e" -> "E"
      [] c = "b" -> "B"
      [] c = "u" -> "U"
      [] c = "g" -> "G"
      [] c = "l" -> "L"
      [] c = "o" -> "O"
      [] OTHER -> c

upper(s) == [i \in DOMAIN s |-> UpperChar(s[i])]

\* level_map.get(level_str, DEFAULT_LOG_LEVEL)
level_map(level_str) ==
    CASE level_str = <<"C", "R", "I", "T", "I", "C", "A", "L">> -> 50
      [] level_str = <<"E", "R", "R", "O", "R">> -> 40
      [] level_str = <<"W", "A", "R", "N", "I", "N", "G">> -> 30
      [] level_str = <<"I", "N", "F", "O">> -> 20
      [] level_str = <<"D", "E", "B", "U", "G">> -> 10
      [] level_str = <<"N", "O", "T", "S", "E", "T">> -> 0
      [] OTHER -> DEFAULT_LOG_LEVEL

\* os.getenv(LOG_LEVEL_ENV_VAR, "INFO")
getenv_level == IF env_level = PyNone THEN <<"I", "N", "F", "O">> ELSE env_level.s

\* The level of lines 51-61
ResolveLevel(level) == IF level.t = "none" THEN level_map(upper(getenv_level)) ELSE level.n

\* Values of APP_LOG_LEVEL: unset, lower case, upper case, no level name
EnvValues ==
    {PyNone, PyStr(<<"d", "e", "b", "u", "g">>), PyStr(<<"E", "R", "R", "O", "R">>),
     PyStr(<<"l", "o", "u", "d">>)}

LevelArgs == {PyNone, PyInt(10), PyInt(30)}
LogFileArgs == {PyNone, PyStr(""), PyStr("app.log")}

\* A handler object: its class, who created it, and its identity
Handler(kind, owner, id) == [kind |-> kind, owner |-> owner, id |-> id]

\* Handlers other code put on the root logger before this module is imported
ForeignHandlers ==
    {<<>>, <<Handler("console", "other", 1)>>,
     <<Handler("console", "other", 1), Handler("file", "other", 2)>>}

\* Lines 63-98: level, optional clearing, console handler, optional file
\* handler (file_opens: logging.FileHandler(log_file) does not raise), flag
ConfigureBody(level, log_file, force_reconfigure, file_opens) ==
    LET kept == IF force_reconfigure THEN <<>> ELSE root_handlers
        with_console == Append(kept, Handler("console", "logger", next_id))
        adds_file == Truthy(log_file) /\ file_opens
    IN  [handlers |-> IF adds_file
                      THEN Append(with_console, Handler("file", "logger", next_id + 1))
                      ELSE with_console,
         level |-> ResolveLevel(level),
         configured |-> TRUE,
         next_id |-> IF adds_file THEN next_id + 2 ELSE next_id + 1]

\* configure_logging without the test of lines 45-48
configure_logging_unguarded(level, log_file, force_reconfigure, file_opens) ==
    ConfigureBody(level, log_file, force_reconfigure, file_opens)

\* configure_logging(level, log_file, force_reconfigure)
configure_logging(level, log_file, force_reconfigure, file_opens) ==
    IF logger_configured /\ ~force_reconfigure
    THEN [handlers |-> root_handlers, level |-> root_level,
          configured |-> logger_configured, next_id |-> next_id]
    ELSE ConfigureBody(level, log_file, force_reconfigure, file_opens)

\* The state a call leaves, with the record of the call
Leaves(r, call) ==
    /\ root_handlers' = r.handlers
    /\ root_level' = r.level
    /\ logger_configured' = r.configured
    /\ next_id' = r.next_id
    /\ last_call' = call
    /\ prev_handlers' = root_handlers
    /\ prev_level' = root_level
    /\ UNCHANGED <<env_level, parservars>>

NoCall == [op |-> "none", force |-> FALSE, configured_before |-> FALSE]
Call(op, force) == [op |-> op, force |-> force, configured_before |-> logger_configured]

\* The root logger of a fresh interpreter has level WARNING
LoggerInit ==
    /\ imported = FALSE
    /\ logger_configured = FALSE
    /\ root_level = 30
    /\ next_id = 3
    /\ calls = 0
    /\ last_call = NoCall
    /\ prev_level = 30

\* Lines 17 and 130-131: the module body
Import ==
    /\ ~imported
    /\ imported' = TRUE
    /\ calls' = calls
    /\ Leaves(IF ~logger_configured
              THEN configure_logging(PyNone, PyNone, FALSE, TRUE)
              ELSE [handlers |-> root_handlers, level |-> root_level,
                    configured |-> logger_configured, next_id |-> next_id],
              Call("import", FALSE))

\* Lines 20-98, called by the application
ConfigureLogging ==
    /\ imported
    /\ calls < MaxCalls
    /\ calls' = calls + 1
    /\ UNCHANGED imported
    /\ \E level \in LevelArgs, log_file \in LogFileArgs, force \in BOOLEAN, file_opens \in BOOLEAN :
        Leaves(configure_logging(level, log_file, force, file_opens), Call("configure", force))

\* Lines 101-123
GetLogger ==
    /\ imported
    /\ calls < MaxCalls
    /\ calls' = calls + 1
    /\ UNCHANGED imported
    /\ Leaves(IF ~logger_configured
              THEN configure_logging(PyNone, PyNone, FALSE, TRUE)
              ELSE [handlers |-> root_handlers, level |-> root_level,
                    configured |-> logger_configured, next_id |-> next_id],
              Call("get_logger", FALSE))

InitLogger ==
    /\ LoggerInit
    /\ root_handlers \in ForeignHandlers
    /\ prev_handlers = root_handlers
    /\ env_level \in EnvValues
    /\ html_content = EmptyInput
    /\ config = EmptyDict
    /\ pc = "unused"
    /\ tree = <<>>
    /\ results = EmptyDict
    /\ idx = 1
    /\ evaluated = {}
    /\ exc = "none"

NextLogger ==
    \/ Import
    \/ ConfigureLogging
    \/ GetLogger

SpecLogger == InitLogger /\ [][NextLogger]_vars

-----------------------------------------------------------------------------
\* The state machine

Init ==
    /\ html_content \in AllInputs
    /\ config \in Configs
    /\ Len(items(config)) <= 1 \/ html_content \in SampleInputs
    /\ pc = "start"
    /\ tree = <<>>
    /\ results = EmptyDict
    /\ idx = 1
    /\ evaluated = {}
    /\ exc = "none"
    /\ LoggerInit
    /\ root_handlers = <<>>
    /\ prev_handlers = <<>>
    /\ env_level = PyNone

\* line 31, html.fromstring raising
ParseRaises ==
    /\ pc = "start"
    /\ FromstringRaises(html_content)
    /\ pc' = "raised"
    /\ exc' = "ParserError"
    /\ UNCHANGED <<html_content, config, tree, results, idx, evaluated>>
    /\ UNCHANGED logvars

\* lines 31-32
Parse ==
    /\ pc = "start"
    /\ ~FromstringRaises(html_content)
    /\ tree' = fromstring(html_content)
    /\ results' = EmptyDict
    /\ pc' = "loop"
    /\ UNCHANGED <<html_content, config, idx, evaluated, exc>>
    /\ UNCHANGED logvars

InLoop(branch) ==
    /\ pc = "loop"
    /\ idx <= Len(items(config))
    /\ Branch(tree, items(config)[idx].rule) = branch

Continue(value, evals) ==
    /\ results' = Store(results, items(config)[idx].key, value)
    /\ evaluated' = evaluated \cup evals
    /\ idx' = idx + 1
    /\ UNCHANGED <<html_content, config, pc, tree, exc>>
    /\ UNCHANGED logvars

Raise(e, evals) ==
    /\ pc' = "raised"
    /\ exc' = e
    /\ evaluated' = evaluated \cup evals
    /\ UNCHANGED <<html_content, config, tree, results, idx>>
    /\ UNCHANGED logvars

\* line 36: .lower() on a 'type' that is no str
FieldTypeRaises ==
    /\ InLoop("type_error")
    /\ Raise("AttributeError", {})

\* lines 39-41
FieldEmptySelector ==
    /\ InLoop("empty_selector")
    /\ Continue(EmptyForm(multi_of(items(config)[idx].rule)), {})

\* lines 49-51
FieldUnsupported ==
    /\ InLoop("unsupported")
    /\ Continue(EmptyForm(multi_of(items(config)[idx].rule)), {})

\* lines 44-48 raising, lines 52-56
FieldEvalRaises ==
    /\ InLoop("eval_error")
    /\ results' = StoreOnException(results, items(config)[idx].key,
                                   EmptyForm(multi_of(items(config)[idx].rule)))
    /\ evaluated' = evaluated \cup {items(config)[idx].key}
    /\ idx' = idx + 1
    /\ UNCHANGED <<html_content, config, pc, tree, exc>>
    /\ UNCHANGED logvars

\* lines 44-48, then line 59 on a result that cannot be iterated
FieldIterRaises ==
    /\ InLoop("iter_error")
    /\ Raise("TypeError", {items(config)[idx].key})

\* lines 44-48, 58-70
FieldExtracted ==
    /\ InLoop("extracted")
    /\ Continue(FieldValue(tree, items(config)[idx].rule), {items(config)[idx].key})

\* line 72
Return ==
    /\ pc = "loop"
    /\ idx > Len(items(config))
    /\ pc' = "done"
    /\ UNCHANGED <<html_content, config, tree, results, idx, evaluated, exc>>
    /\ UNCHANGED logvars

Next ==
    \/ ParseRaises
    \/ Parse
    \/ FieldTypeRaises
    \/ FieldEmptySelector
    \/ FieldUnsupported
    \/ FieldEvalRaises
    \/ FieldIterRaises
    \/ FieldExtracted
    \/ Return

Spec == Init /\ [][Next]_vars

-----------------------------------------------------------------------------
\* Vocabulary of the properties

NumFields == Len(items(config))
RuleAt(i) == items(config)[i].rule
KeyAt(i) == items(config)[i].key
ConfiguredKeys == {KeyAt(i) : i \in 1..NumFields}

Parsed == ~FromstringRaises(html_content)

\* The iteration of field i ran to its end and stored a value
Handled(i) == pc \in {"loop", "done", "raised"} /\ i < idx

\* An exception left the function from the iteration of field i
RaisedAt(i) == pc = "raised" /\ exc # "ParserError" /\ idx = i

Finished == pc \in {"done", "raised"}

\* data_points without its i-th entry
Without(dp, i) == SubSeq(dp, 1, i - 1) \o SubSeq(dp, i + 1, Len(dp))

\* C1: per-field isolation.  When the selector of field i fails to evaluate
\* and the call on the rule set without field i returns, the call returns,
\* field i holds its empty form and every other field holds exactly the value
\* of the call without field i.
C1_Isolation ==
    Finished /\ Parsed =>
        \A i \in 1..NumFields :
            Branch(fromstring(html_content), RuleAt(i)) = "eval_error" =>
                LET other == parse_product_page(html_content, Without(items(config), i)) IN
                other.returned =>
                    /\ pc = "done"
                    /\ DOMAIN results = DOMAIN other.results \cup {KeyAt(i)}
                    /\ results[KeyAt(i)] = EmptyForm(multi_of(RuleAt(i)))
                    /\ \A k \in DOMAIN other.results : results[k] = other.results[k]

\* A returned call in which one field failed to evaluate and another field
\* extracted a string
C1_Witness ==
    /\ pc = "done"
    /\ \E i, j \in 1..NumFields :
        /\ Branch(tree, RuleAt(i)) = "eval_error"
        /\ Branch(tree, RuleAt(j)) = "extracted"
        /\ results[KeyAt(i)] = PyNone
        /\ results[KeyAt(j)] = PyStr(<<"B">>)

\* C2: totality.  The returned mapping has exactly the keys of
\* config['data_points'].
C2_Totality == pc = "done" => DOMAIN results = ConfiguredKeys

\* A returned mapping of two fields, one resolved to None and one to a list
C2_Witness ==
    /\ pc = "done"
    /\ NumFields = 2
    /\ results[KeyAt(1)] = PyNone
    /\ results[KeyAt(2)].t = "list"

\* C3: a document the parser cannot build a tree for never raises: the call
\* returns a mapping in which every configured field has its empty form.
C3_ParseFailureReturnsEmptyForms ==
    Finished /\ ~Parsed =>
        /\ pc = "done"
        /\ DOMAIN results = ConfiguredKeys
        /\ \A i \in 1..NumFields : results[KeyAt(i)] = EmptyForm(multi_of(RuleAt(i)))

\* C4: for a parsed document no exception leaves the call, whatever the rules
\* hold and whatever the query engine returns for them.
C4_NothingRaisesPastBoundary == Parsed => pc # "raised"

\* The value the claim gives an attribute rule: the trimmed src values of the
\* img elements, the first of them (or None) when multi is false
AttrValues(t) ==
    LET f == WithTag(t, "img") IN [i \in DOMAIN f |-> PyStr(strip(f[i].src))]

IsCssRule(rule) == type_of(rule).t = "str" /\ lower(type_of(rule).s) = TypeCss

\* C5: a CSS rule with the selector 'img::attr(src)' yields the trimmed src
\* attribute of the matched img elements ('  /a.png ' gives '/a.png').
C5_CssAttrSuffix ==
    pc = "done" =>
        \A i \in 1..NumFields :
            IsCssRule(RuleAt(i)) /\ selector_of(RuleAt(i)) = PyStr(SelCssAttr) =>
                results[KeyAt(i)] =
                    IF multi_of(RuleAt(i)) THEN PyList(AttrValues(tree))
                    ELSE IF AttrValues(tree) = <<>> THEN PyNone ELSE AttrValues(tree)[1]

\* C6: a rule whose selector is absent or empty yields its empty form for
\* every document and every 'type', without raising and without a query.
C6_EmptySelector ==
    \A i \in 1..NumFields :
        ~Truthy(selector_of(RuleAt(i))) =>
            /\ ~RaisedAt(i)
            /\ Handled(i) =>
                /\ KeyAt(i) \in DOMAIN results
                /\ results[KeyAt(i)] = EmptyForm(multi_of(RuleAt(i)))
                /\ KeyAt(i) \notin evaluated

\* The rule's iteration stored the empty form and made no query
EmptyUnevaluated(i) ==
    /\ KeyAt(i) \in DOMAIN results
    /\ results[KeyAt(i)] = EmptyForm(multi_of(RuleAt(i)))
    /\ KeyAt(i) \notin evaluated

MatchText(m) == IF m.t = "str" THEN m.s ELSE m.text
Contributes(m) == m.t = "str" \/ (m.t = "node" /\ strip(m.text) # <<>>)
Normalized(ms) ==
    LET kept == SelectSeq(ms, Contributes) IN [i \in DOMAIN kept |-> strip(MatchText(kept[i]))]

\* Field i was evaluated and the query engine returned a sequence of matches
ReturnedMatches(i) ==
    /\ Branch(tree, RuleAt(i)) = "extracted"
    /\ Evaluate(tree, RuleAt(i)).kind = "list"

IsTrimmed(s) == s = <<>> \/ (s[1] \notin Whitespace /\ s[Len(s)] \notin Whitespace)

\* C8: for a multi rule whose evaluation returns a sequence of matches, the
\* result is the list of the trimmed string matches (empty ones included) and
\* of the trimmed non-empty node texts, in the engine's order; nodes with
\* text 'A', '', ' B ' give ['A', 'B'].
C8_MultiIsNormalizedSequence ==
    \A i \in 1..NumFields :
        Handled(i) /\ multi_of(RuleAt(i)) /\ ReturnedMatches(i) =>
            LET ms == Evaluate(tree, RuleAt(i)).items
                norm == Normalized(ms) IN
            /\ results[KeyAt(i)] = PyList([n \in DOMAIN norm |-> PyStr(norm[n])])
            /\ \A n \in DOMAIN norm : IsTrimmed(norm[n])
            /\ [n \in DOMAIN ms |-> MatchText(ms[n])] = <<<<"A">>, <<>>, <<" ", "B", " ">>>>
               /\ (\A n \in DOMAIN ms : ms[n].t = "node")
               => results[KeyAt(i)] = PyList(<<PyStr(<<"A">>), PyStr(<<"B">>)>>)

\* The example of the claim: three nodes with text 'A', '', ' B ' gave ['A', 'B']
C8_Witness ==
    /\ pc = "done"
    /\ [n \in DOMAIN tree |-> tree[n].text] = <<<<"A">>, <<>>, <<" ", "B", " ">>>>
    /\ \E i \in 1..NumFields :
        /\ multi_of(RuleAt(i))
        /\ ReturnedMatches(i)
        /\ results[KeyAt(i)] = PyList(<<PyStr(<<"A">>), PyStr(<<"B">>)>>)

\* C9: for a rule with multi false the result is never a list; when the
\* engine returns a sequence of matches it is None if the normalized sequence
\* is empty and the first element of the normalized sequence otherwise.
C9_SingleIsFirstOrNone ==
    \A i \in 1..NumFields :
        Handled(i) /\ ~multi_of(RuleAt(i)) =>
            /\ results[KeyAt(i)].t # "list"
            /\ ReturnedMatches(i) =>
                LET norm == Normalized(Evaluate(tree, RuleAt(i)).items) IN
                results[KeyAt(i)] = IF norm = <<>> THEN PyNone ELSE PyStr(norm[1])

\* A single-value rule whose normalized sequence holds two different strings
\* resolved to the first of them
C9_Witness ==
    /\ pc = "done"
    /\ \E i \in 1..NumFields :
        /\ ~multi_of(RuleAt(i))
        /\ ReturnedMatches(i)
        /\ LET norm == Normalized(Evaluate(tree, RuleAt(i)).items) IN
           /\ Len(norm) >= 2
           /\ norm[1] # norm[2]
           /\ results[KeyAt(i)] = PyStr(norm[1])

NonEmptyTrimmed(v) == v.t = "str" /\ v.s # <<>> /\ IsTrimmed(v.s)

\* C10 as stated: every single value of a returned mapping is None or a
\* non-empty trimmed string, and every element of a list is a non-empty
\* trimmed string.
C10_OnlyNonEmptyTrimmed ==
    pc = "done" =>
        \A k \in DOMAIN results :
            CASE results[k].t = "list" ->
                    \A n \in DOMAIN results[k].items : NonEmptyTrimmed(results[k].items[n])
              [] results[k].t = "none" -> TRUE
              [] OTHER -> NonEmptyTrimmed(results[k])

\* The strings of a result value
StringsOf(v) ==
    CASE v.t = "list" -> {v.items[n].s : n \in DOMAIN v.items}
      [] v.t = "str" -> {v.s}
      [] OTHER -> {}

\* C10 amended: every value of a returned mapping is None, a string or a list
\* of strings; every string is trimmed; a string that comes from a node match
\* is non-empty, while a string match may contribute the empty string.
C10_TrimmedNodeTextNonEmpty ==
    pc = "done" =>
        \A i \in 1..NumFields :
            /\ results[KeyAt(i)].t \in {"none", "str", "list"}
            /\ results[KeyAt(i)].t = "list" <=> multi_of(RuleAt(i))
            /\ \A s \in StringsOf(results[KeyAt(i)]) : IsTrimmed(s)
            /\ ReturnedMatches(i)
               /\ (\A n \in DOMAIN Evaluate(tree, RuleAt(i)).items :
                      Evaluate(tree, RuleAt(i)).items[n].t = "node")
               => <<>> \notin StringsOf(results[KeyAt(i)])

\* A list that holds a trimmed attribute value next to an empty string, and
\* a list of node texts of a document with a blank element
C10_Witness ==
    /\ pc = "done"
    /\ \E i \in 1..NumFields :
        /\ ReturnedMatches(i)
        /\ results[KeyAt(i)] = PyList(<<PyStr(<<"/", "a", ".", "p", "n", "g">>), PyStr(<<>>)>>)

\* The handlers of the given class that this module put on the root logger
Installed(kind) ==
    {i \in DOMAIN root_handlers :
        root_handlers[i].kind = kind /\ root_handlers[i].owner = "logger"}

HandlerIds(hs) == {hs[i].id : i \in DOMAIN hs}

\* C11: once the module is imported, after any sequence of configure_logging
\* and get_logger calls the root logger holds at most one console handler and
\* at most one file handler of this module; a configure_logging call with
\* force_reconfigure false made after the module configured logging changes
\* neither the handlers nor the level; a call with force_reconfigure true
\* leaves none of the handlers it found, only the ones it installs.
C11_NoDuplicateHandlers ==
    imported =>
        /\ Cardinality(Installed("console")) <= 1
        /\ Cardinality(Installed("file")) <= 1
        /\ last_call.op = "configure" /\ ~last_call.force /\ last_call.configured_before
           => root_handlers = prev_handlers /\ root_level = prev_level
        /\ last_call.op = "configure" /\ last_call.force
           => /\ HandlerIds(root_handlers) \cap HandlerIds(prev_handlers) = {}
              /\ \A i \in DOMAIN root_handlers : root_handlers[i].owner = "logger"
              /\ root_handlers[1].kind = "console"

\* A forced call that found two handlers of other code and the module's
\* console handler, and left a new console handler and a new file handler
C11_Witness ==
    /\ imported
    /\ last_call.op = "configure"
    /\ last_call.force
    /\ Len(prev_handlers) = 3
    /\ prev_handlers[1].owner = "other"
    /\ Len(root_handlers) = 2
    /\ Cardinality(Installed("console")) = 1
    /\ Cardinality(Installed("file")) = 1

====
